---- MODULE Spec2Model ----
(***************************************************************************)
(* The tour service of backend/server.py: five request handlers            *)
(* (create_tour, get_tours, get_tour, update_tour, delete_tour) over one   *)
(* MongoDB collection, db.tours.  Every `await` on the collection is one   *)
(* atomic step at the store; a handler with several awaits (create_tour,   *)
(* update_tour) is several steps, and the steps of the handlers in flight  *)
(* interleave freely.                                                      *)
(***************************************************************************)
EXTENDS Integers, Sequences, FiniteSets, TLC

\* ------------------------------------------------------------- bounds
\* Handler coroutines in flight at once.
NumHandlers == 2
\* Calls of uuid.uuid4 the model follows (tours ever created).
MaxTours == 2
\* The clock is read at most this many times (the readings are the instants
\* below, each later than the one before it).
MaxReadings == 5

\* ---------------------------------------------------- program constants
\* to_list(1000) in get_tours.
ListLimit == 1000
\* A BSON datetime counts whole milliseconds; datetime.utcnow() counts
\* microseconds.  insert_one and update_one encode through BSON.
MicrosPerMilli == 1000

VARIABLES
    store,        \* db.tours: the documents, in insertion order
    now,          \* the last reading of datetime.utcnow()
    issued,       \* how many ids uuid.uuid4 has handed out
    handler,      \* per handler slot: the await the coroutine is at, the
                  \* request it serves and its locals
    resp,         \* the response a handler has just returned, until it is
                  \* delivered
    created,      \* the Tour objects the create_tour calls have returned
    modified,     \* ids on which an update_tour has written
    deleted       \* per id, how many delete_tour calls returned success

vars == <<store, now, issued, handler, resp, created, modified, deleted>>

Handlers == 1 .. NumHandlers
TourIds == 1 .. MaxTours
\* The instants at which the clock is read, in microseconds since the process
\* started: two in every millisecond, 1 us apart.
Instant(i) == (i \div 2) * MicrosPerMilli + (i % 2)
Instants == { Instant(i) : i \in 1 .. MaxReadings }

\* ------------------------------------------------------ Optional[...]
\* None is the empty set and a present value v is {v}: `x is not None`,
\* `if not x` on a document.
None == {}
Some(v) == {v}
The(o) == CHOOSE v \in o : TRUE

Min(a, b) == IF a <= b THEN a ELSE b

\* ------------------------------------------------------------- text
\* A text is a sequence of characters, so that $regex can look inside it.
Lower(ch) ==
    CASE ch = "A" -> "a" [] ch = "B" -> "b" [] ch = "I" -> "i"
      [] ch = "L" -> "l" [] ch = "S" -> "s" [] OTHER -> ch

\* {"$regex": pattern, "$options": "i"} for a pattern of plain letters: the
\* pattern occurs somewhere in the text, letter case ignored.
RegexI(pattern, text) ==
    \E i \in 0 .. (Len(text) - Len(pattern)) :
        \A j \in 1 .. Len(pattern) : Lower(text[i + j]) = Lower(pattern[j])

\* ------------------------------------------------------------ models
InputFields ==
    { "title", "description", "destination", "duration", "price",
      "max_capacity", "available_spots", "start_date", "end_date",
      "image_url", "package_details" }

\* class TourCreate: the payloads the handlers post.
TourCreate ==
    { [ title |-> <<"B", "a", "l", "i">>,
        description |-> <<"s", "e", "a">>,
        destination |-> <<"B", "A", "L", "I">>,
        duration |-> 7, price |-> 1299, max_capacity |-> 20,
        available_spots |-> 15,
        start_date |-> "2025-07-01", end_date |-> "2025-07-08",
        image_url |-> "https://images/1.jpeg",
        package_details |-> { <<"transportation", "Flight">> } ],
      [ title |-> <<"A", "l", "p", "s">>,
        description |-> <<"s", "k", "i">>,
        destination |-> <<"I", "s", "e", "l">>,
        duration |-> 3, price |-> 800, max_capacity |-> 10,
        available_spots |-> 12,
        start_date |-> "2025-12-24", end_date |-> "2025-12-20",
        image_url |-> "",
        package_details |-> {} ] }

\* class TourUpdate: every field Optional, None by default.
NoUpdate == [k \in InputFields |-> None]

TourUpdate ==
    { NoUpdate,
      [NoUpdate EXCEPT !.price = Some(1399), !.available_spots = Some(10)],
      [NoUpdate EXCEPT !.title = Some(<<>>), !.duration = Some(0),
                       !.price = Some(0), !.package_details = Some({})] }

\* Tour with max_capacity and available_spots taken from each other's key.
TourSwapped(tour_dict, id, created_at, updated_at) ==
    [ id |-> id,
      title |-> tour_dict.title,
      description |-> tour_dict.description,
      destination |-> tour_dict.destination,
      duration |-> tour_dict.duration,
      price |-> tour_dict.price,
      max_capacity |-> tour_dict.available_spots,
      available_spots |-> tour_dict.max_capacity,
      start_date |-> tour_dict.start_date,
      end_date |-> tour_dict.end_date,
      image_url |-> tour_dict.image_url,
      package_details |-> tour_dict.package_details,
      created_at |-> created_at,
      updated_at |-> updated_at ]

\* class Tour: Tour(**tour_dict) with the defaults of id, created_at and
\* updated_at already drawn (in the order the fields are declared).
Tour(tour_dict, id, created_at, updated_at) ==
    [ id |-> id,
      title |-> tour_dict.title,
      description |-> tour_dict.description,
      destination |-> tour_dict.destination,
      duration |-> tour_dict.duration,
      price |-> tour_dict.price,
      max_capacity |-> tour_dict.max_capacity,
      available_spots |-> tour_dict.available_spots,
      start_date |-> tour_dict.start_date,
      end_date |-> tour_dict.end_date,
      image_url |-> tour_dict.image_url,
      package_details |-> tour_dict.package_details,
      created_at |-> created_at,
      updated_at |-> updated_at ]

\* Tour(**tour) on a document read from the store.
TourOf(doc) == Tour(doc, doc.id, doc.created_at, doc.updated_at)

\* ---------------------------------------------------------- the clock
\* datetime.utcnow(): the readings possible after the reading `last`.  The
\* clock is strictly increasing: no two readings are equal.
UtcNow(last) ==
    { t \in Instants : t > last }

\* uuid4 as a generator that returns its last id again.
Uuid4Repeated == IF issued = 0 THEN 1 ELSE issued

\* uuid.uuid4(): an id no call has returned before (ids are opaque, so the
\* n-th call may as well return n).
Uuid4 == issued + 1

\* ---------------------------------------------------------- the store
\* A datetime as BSON keeps it: whole milliseconds since the epoch, the
\* microseconds cut off.  What find and find_one return is what was kept.
BsonDatetime(t) == t - (t % MicrosPerMilli)

BsonValue(k, v) ==
    IF k \in {"created_at", "updated_at"} THEN BsonDatetime(v) ELSE v

BsonDocument(d) == [k \in DOMAIN d |-> BsonValue(k, d[k])]

\* The positions of the documents {"id": id} selects.
Matching(docs, id) == { i \in 1 .. Len(docs) : docs[i].id = id }

FirstOf(S) == CHOOSE i \in S : \A j \in S : i <= j

\* collection.insert_one(doc)
InsertOne(docs, doc) == Append(docs, BsonDocument(doc))

\* find_one with its filter dropped: the first document, whatever its id.
FindOneUnfiltered(docs, id) ==
    IF docs = <<>> THEN None ELSE Some(docs[1])

\* collection.find_one({"id": id}): the first match, or None.
FindOne(docs, id) ==
    IF Matching(docs, id) = {} THEN None
    ELSE Some(docs[FirstOf(Matching(docs, id))])

\* update_one with upsert=True: no match, and a document of the filter and
\* the fields is inserted.
UpdateOneUpsert(docs, id, fields) ==
    IF Matching(docs, id) = {}
    THEN Append(docs, [k \in DOMAIN fields \cup {"id"} |->
                          IF k = "id" THEN id ELSE BsonValue(k, fields[k])])
    ELSE [docs EXCEPT ![FirstOf(Matching(docs, id))] =
            [k \in DOMAIN @ |->
                IF k \in DOMAIN fields THEN BsonValue(k, fields[k]) ELSE @[k]]]

\* collection.update_one({"id": id}, {"$set": fields}): the first match gets
\* the fields; no match, no change (there is no upsert).
UpdateOne(docs, id, fields) ==
    IF Matching(docs, id) = {} THEN docs
    ELSE [docs EXCEPT ![FirstOf(Matching(docs, id))] =
            [k \in DOMAIN @ |->
                IF k \in DOMAIN fields THEN BsonValue(k, fields[k]) ELSE @[k]]]

\* delete_one that removes the first document instead of the first match.
DeleteOneFirst(docs, id) ==
    IF Matching(docs, id) = {} THEN docs ELSE Tail(docs)

\* collection.delete_one({"id": id}): the documents left.
DeleteOne(docs, id) ==
    IF Matching(docs, id) = {} THEN docs
    ELSE LET i == FirstOf(Matching(docs, id))
         IN  SubSeq(docs, 1, i - 1) \o SubSeq(docs, i + 1, Len(docs))

\* result.deleted_count of that delete_one.
DeletedCount(docs, id) == IF Matching(docs, id) = {} THEN 0 ELSE 1

\* The query get_tours builds from its two parameters (`if search:` and
\* `if destination:` skip None and the empty string), as a test on a document.
Query(search, destination, doc) ==
    /\ (search # None /\ The(search) # <<>>) =>
            \/ RegexI(The(search), doc.title)
            \/ RegexI(The(search), doc.description)
            \/ RegexI(The(search), doc.destination)
    /\ (destination # None /\ The(destination) # <<>>) =>
            RegexI(The(destination), doc.destination)

\* collection.find(query)
Find(docs, search, destination) ==
    SelectSeq(docs, LAMBDA doc : Query(search, destination, doc))

\* to_list that stops one document short of the limit.
ToListShort(docs, length) == SubSeq(docs, 1, Min(Len(docs), length - 1))

\* cursor.to_list(length)
ToList(docs, length) == SubSeq(docs, 1, Min(Len(docs), length))

\* ----------------------------------------------------------- handlers
\* A slot with no coroutine in it.
Ready == [ pc |-> "ready", id |-> 0, data |-> None, local |-> None ]

\* A coroutine waiting at an await, with its locals.
Awaiting(pc, id, data, local) ==
    [ pc |-> pc, id |-> id, data |-> Some(data), local |-> Some(local) ]

\* The response a handler ends with.
Response(op, id, data, status, body) ==
    Some([ op |-> op, id |-> id, data |-> data, status |-> status, body |-> body ])

\* A request is served in the first slot that is free (the slots are alike).
Free(c) ==
    /\ resp = None
    /\ handler[c].pc = "ready"
    /\ \A d \in Handlers : d < c => handler[d].pc # "ready"

Init ==
    /\ store = <<>>
    /\ now = 0
    /\ issued = 0
    /\ handler = [c \in Handlers |-> Ready]
    /\ resp = None
    /\ created = {}
    /\ modified = {}
    /\ deleted = [id \in TourIds |-> 0]

\* create_tour up to its await: the Tour object is built.
CreateBuild(c, tour_data) ==
    /\ Free(c)
    /\ issued < MaxTours
    /\ \E t1 \in UtcNow(now) : \E t2 \in UtcNow(t1) :
          /\ handler' = [handler EXCEPT ![c] =
                Awaiting("insert", Uuid4, tour_data, Tour(tour_data, Uuid4, t1, t2))]
          /\ now' = t2
    /\ issued' = issued + 1
    /\ resp' = None
    /\ UNCHANGED <<store, created, modified, deleted>>

\* create_tour: insert_one, and the Tour object is the response.
CreateInsert(c) ==
    /\ resp = None
    /\ handler[c].pc = "insert"
    /\ LET tour_obj == The(handler[c].local)
       IN  /\ store' = InsertOne(store, tour_obj)
           /\ resp' = Response("create", tour_obj.id, handler[c].data, 200, <<tour_obj>>)
           /\ created' = created \cup {tour_obj}
    /\ handler' = [handler EXCEPT ![c] = Ready]
    /\ UNCHANGED <<now, issued, modified, deleted>>

\* [Tour(**tour) for tour in tours]
Tours(tours) == [i \in 1 .. Len(tours) |-> TourOf(tours[i])]

\* get_tours
GetTours(c, search, destination) ==
    /\ Free(c)
    /\ resp' = Response("list", 0, Some(<<search, destination>>), 200,
                        Tours(ToList(Find(store, search, destination), ListLimit)))
    /\ UNCHANGED <<store, now, issued, handler, created, modified, deleted>>

\* get_tour
GetTour(c, tour_id) ==
    /\ Free(c)
    /\ LET tour == FindOne(store, tour_id)
       IN  resp' = IF tour = None
                   THEN Response("get", tour_id, None, 404, <<>>)
                   ELSE Response("get", tour_id, None, 200, <<TourOf(The(tour))>>)
    /\ UNCHANGED <<store, now, issued, handler, created, modified, deleted>>

\* Whether Python takes the value of a field for false.
Falsy(k, v) ==
    CASE k \in {"title", "description", "destination"} -> v = <<>>
      [] k \in {"duration", "price", "max_capacity", "available_spots"} -> v = 0
      [] k \in {"start_date", "end_date", "image_url"} -> v = ""
      [] OTHER -> v = {}

\* update_data filtered with `if v` in place of `if v is not None`.
UpdateDataTruthy(tour_data, t) ==
    [k \in {f \in InputFields :
                tour_data[f] # None /\ ~Falsy(f, The(tour_data[f]))}
            \cup {"updated_at"} |->
        IF k = "updated_at" THEN t ELSE The(tour_data[k])]

\* update_data of update_tour: the fields that are not None, and updated_at.
UpdateData(tour_data, t) ==
    [k \in {f \in InputFields : tour_data[f] # None} \cup {"updated_at"} |->
        IF k = "updated_at" THEN t ELSE The(tour_data[k])]

\* update_tour, the first find_one: 404, or update_data is built.  Lines
\* 103-107 run when the coroutine resumes; they touch only its locals and the
\* clock, and only whether find_one found a document matters to them, so
\* they are taken in the same step as the find_one.
UpdateFind(c, tour_id, tour_data) ==
    /\ Free(c)
    /\ IF FindOne(store, tour_id) = None
       THEN /\ resp' = Response("update", tour_id, Some(tour_data), 404, <<>>)
            /\ UNCHANGED <<handler, now>>
       ELSE \E t \in UtcNow(now) :
            /\ handler' = [handler EXCEPT ![c] =
                  Awaiting("write", tour_id, tour_data, UpdateData(tour_data, t))]
            /\ now' = t
            /\ resp' = None
    /\ UNCHANGED <<store, issued, created, modified, deleted>>

\* update_tour: update_one.
UpdateWrite(c) ==
    /\ resp = None
    /\ handler[c].pc = "write"
    /\ store' = UpdateOne(store, handler[c].id, The(handler[c].local))
    /\ handler' = [handler EXCEPT ![c].pc = "read"]
    /\ modified' = modified \cup {handler[c].id}
    /\ resp' = None
    /\ UNCHANGED <<now, issued, created, deleted>>

\* update_tour, the second find_one: Tour(**updated_tour) is the response;
\* Tour(**None) raises TypeError, which the framework answers with 500.
UpdateRead(c) ==
    /\ resp = None
    /\ handler[c].pc = "read"
    /\ LET updated_tour == FindOne(store, handler[c].id)
       IN  resp' = IF updated_tour = None
                   THEN Response("update", handler[c].id, handler[c].data, 500, <<>>)
                   ELSE Response("update", handler[c].id, handler[c].data, 200,
                                 <<TourOf(The(updated_tour))>>)
    /\ handler' = [handler EXCEPT ![c] = Ready]
    /\ UNCHANGED <<store, now, issued, created, modified, deleted>>

\* delete_tour
DeleteTour(c, tour_id) ==
    /\ Free(c)
    /\ store' = DeleteOne(store, tour_id)
    /\ IF DeletedCount(store, tour_id) = 0
       THEN /\ resp' = Response("delete", tour_id, None, 404, <<>>)
            /\ deleted' = deleted
       ELSE /\ resp' = Response("delete", tour_id, None, 200, <<>>)
            /\ deleted' = [deleted EXCEPT ![tour_id] = @ + 1]
    /\ UNCHANGED <<now, issued, handler, created, modified>>

\* The framework sends the response a handler returned.
Deliver ==
    /\ resp # None
    /\ resp' = None
    /\ UNCHANGED <<store, now, issued, handler, created, modified, deleted>>

\* The search and destination parameters the handlers send.
Filters ==
    { <<None, None>>, <<Some(<<>>), Some(<<>>)>>, <<Some(<<"a", "L">>), None>>,
      <<Some(<<"S">>), Some(<<"b">>)>> }

Next ==
    \/ Deliver
    \/ \E c \in Handlers :
        \/ \E tour_data \in TourCreate : CreateBuild(c, tour_data)
        \/ CreateInsert(c)
        \/ \E f \in Filters : GetTours(c, f[1], f[2])
        \/ \E tour_id \in TourIds : GetTour(c, tour_id)
        \/ \E tour_id \in TourIds, tour_data \in TourUpdate :
              UpdateFind(c, tour_id, tour_data)
        \/ UpdateWrite(c)
        \/ UpdateRead(c)
        \/ \E tour_id \in TourIds : DeleteTour(c, tour_id)

Spec == Init /\ [][Next]_vars

\* The store as ListLimit - 1 or ListLimit earlier create_tour calls left it
\* (ids beyond those the model hands out, made before the clock's first
\* instant), with three readings of the clock still to come: one more
\* create_tour takes the documents to ListLimit or past it.
BulkTour(i) ==
    Tour(CHOOSE tour_data \in TourCreate : tour_data.duration = 7, MaxTours + i, 0, 0)

InitBulk ==
    /\ \E n \in {ListLimit - 1, ListLimit} :
          /\ store = [i \in 1 .. n |-> BsonDocument(BulkTour(i))]
          /\ created = { BulkTour(i) : i \in 1 .. n }
    /\ now = Instant(MaxReadings - 3)
    /\ issued = 0
    /\ handler = [c \in Handlers |-> Ready]
    /\ resp = None
    /\ modified = {}
    /\ deleted = [id \in TourIds |-> 0]

SpecBulk == (Init \/ InitBulk) /\ [][Next]_vars

\* ------------------------------------------------------------- claims
\* The response a handler has just returned.
Returned == The(resp)

IsResponse(op) == resp # None /\ Returned.op = op

\* A create_tour has returned: its Tour has the posted values in the eleven
\* input fields and an id no document that was in the store before it has.
\* A get_tour of an id that create_tour returned, on which no update_tour has
\* written and no delete_tour succeeded, returns that Tour: the same id and
\* input fields, and created_at and updated_at as `stored` gives them.
RoundTrip(stored(_)) ==
    /\ IsResponse("create") =>
          /\ Returned.status = 200
          /\ \A i \in 1 .. (Len(store) - 1) : store[i].id # Returned.id
          /\ \A k \in InputFields : Returned.body[1][k] = The(Returned.data)[k]
          /\ Returned.body[1].id = Returned.id
    /\ IsResponse("get") =>
          \A t \in created :
              (t.id = Returned.id /\ t.id \notin modified /\ deleted[t.id] = 0) =>
                  /\ Returned.status = 200
                  /\ Returned.body[1].id = t.id
                  /\ \A k \in InputFields : Returned.body[1][k] = t[k]
                  /\ Returned.body[1].created_at = stored(t.created_at)
                  /\ Returned.body[1].updated_at = stored(t.updated_at)

OneStepRequest == resp = None /\ resp' # None /\ handler' = handler

\* C2: for every id that no stored record has when the call is made,
\* get_tour, update_tour (with any payload) and delete_tour end with 404 and
\* leave the store exactly as it was.
C2_AbsentIdNotFound ==
    [][ \A id \in TourIds :
            ( /\ Matching(store, id) = {}
              /\ OneStepRequest
              /\ The(resp').id = id
              /\ The(resp').op \in {"get", "update", "delete"} )
            => (The(resp').status = 404 /\ store' = store) ]_vars

\* C2's case: an update_tour with a non-empty payload ended with 404 while
\* another record was stored.
C2_Witness ==
    /\ IsResponse("update")
    /\ Returned.status = 404
    /\ The(Returned.data).price # None
    /\ Len(store) = 1
    /\ deleted[Returned.id] = 1

\* C3: the update_one of an update_tour that found its record changes only
\* that record, and in it only updated_at and the fields the payload supplies
\* non-null (a supplied 0, empty text or empty map is written); omitted
\* fields, id and created_at keep their values and every other record is
\* left as it was.
C3_UpdateFrame ==
    [][ \A c \in Handlers :
            ( /\ handler[c].pc = "write"
              /\ handler'[c].pc = "read"
              /\ Matching(store, handler[c].id) # {} )
            => LET id == handler[c].id
                   tour_data == The(handler[c].data)
               IN  /\ Len(store') = Len(store)
                   /\ \A i \in 1 .. Len(store) :
                        IF store[i].id # id
                        THEN store'[i] = store[i]
                        ELSE /\ DOMAIN store'[i] = DOMAIN store[i]
                             /\ store'[i].id = id
                             /\ store'[i].created_at = store[i].created_at
                             /\ \A k \in InputFields :
                                  store'[i][k] =
                                     IF tour_data[k] # None
                                     THEN The(tour_data[k]) ELSE store[i][k] ]_vars

\* C3's case: an update_tour has written an empty title, a duration of 0 and
\* an empty package_details into one of two stored records.
C3_Witness ==
    \E c \in Handlers :
        /\ handler[c].pc = "read"
        /\ The(handler[c].data).title = Some(<<>>)
        /\ Len(store) = 2
        /\ \E i \in 1 .. 2 :
              /\ store[i].id = handler[c].id
              /\ store[i].title = <<>>
              /\ store[i].duration = 0
              /\ store[i].package_details = {}
              /\ store[i].max_capacity # 0

\* C4: once a delete_tour of an id has returned success, no record has that
\* id again (an update_tour that found the record before the delete and
\* writes after it does not re-create it), so every later get_tour of the id
\* ends with 404.
C4_DeletedStaysGone ==
    \A id \in TourIds :
        deleted[id] > 0 =>
            /\ Matching(store, id) = {}
            /\ (IsResponse("get") /\ Returned.id = id) => Returned.status = 404

\* C4's case: a get_tour of a deleted id ended with 404 while an update_tour
\* of that id, which found the record, has written and not yet returned.
C4_Witness ==
    /\ IsResponse("get")
    /\ Returned.status = 404
    /\ deleted[Returned.id] = 1
    /\ \E c \in Handlers : handler[c].pc = "read" /\ handler[c].id = Returned.id

\* The ids created and not deleted since.
Live == { t.id : t \in created } \ { id \in TourIds : deleted[id] > 0 }

NoFilter(f) == f = None \/ f = Some(<<>>)

\* What C5 says of the list `body`, given the set `tours` of its records, the
\* set `docs` of the stored records and the set `live` of the live ids.
ListedAll(body, tours, docs, live) ==
    /\ tours \subseteq docs
    /\ Cardinality(tours) = Len(body)
    /\ { t.id : t \in docs } = live
    /\ Cardinality(docs) = Cardinality(live)
    /\ IF Cardinality(live) <= ListLimit
       THEN tours = docs
       ELSE Len(body) = ListLimit

\* C5: get_tours with neither filter (absent or empty) returns stored
\* records as they now are, none twice; the stored records are those created
\* and not deleted since; it returns all of them when they are at most
\* ListLimit, and ListLimit of them otherwise.
C5_ListAll ==
    ( /\ IsResponse("list")
      /\ NoFilter(The(Returned.data)[1])
      /\ NoFilter(The(Returned.data)[2]) )
    => /\ Returned.status = 200
       /\ ListedAll(Returned.body,
                    { Returned.body[i] : i \in 1 .. Len(Returned.body) },
                    { TourOf(store[i]) : i \in 1 .. Len(store) },
                    Live)

\* C5's case: get_tours with empty filters answered with ListLimit records
\* while ListLimit + 1 were stored, the last of them created in this run.
C5_Witness ==
    /\ IsResponse("list")
    /\ Returned.data = Some(<<Some(<<>>), Some(<<>>)>>)
    /\ Len(Returned.body) = ListLimit
    /\ Len(store) = ListLimit + 1
    /\ store[ListLimit + 1].id \in TourIds

\* C6 as stated: the record a successful update_tour returns has the
\* requested id and, in every field the payload supplies non-null, the
\* supplied value, whatever other update_tour calls run beside it.
C6_UpdateReturnsSupplied ==
    (IsResponse("update") /\ Returned.status = 200) =>
        /\ Returned.body[1].id = Returned.id
        /\ \A k \in InputFields :
              The(Returned.data)[k] # None =>
                  Returned.body[1][k] = The(The(Returned.data)[k])

\* C7 as stated: every update_tour call ends with 404 or with success and
\* the full updated record, under every interleaving.
C7_UpdateOutcome ==
    IsResponse("update") =>
        \/ Returned.status = 404
        \/ Returned.status = 200 /\ Len(Returned.body) = 1

\* C8 as stated, for the concurrent case: the write of an update_tour that
\* found its record never moves the stored updated_at backwards.
C8_UpdatedAtNeverBack ==
    [][ \A c \in Handlers :
            (handler[c].pc = "write" /\ handler'[c].pc = "read") =>
                \A i \in 1 .. Len(store) :
                    store[i].id = handler[c].id =>
                        store'[i].updated_at >= store[i].updated_at ]_vars

\* C9: a delete_tour of an id a stored record has returns success and removes
\* that record and no other; a delete_tour of an id no stored record has
\* returns 404 and removes nothing; so of the delete_tour calls on one id one
\* at most returns success, and once one has, the others return 404.
C9_DeleteOnce ==
    [][ \A id \in TourIds :
            (OneStepRequest /\ The(resp').op = "delete" /\ The(resp').id = id) =>
                /\ deleted'[id] <= 1
                /\ IF Matching(store, id) # {}
                   THEN /\ The(resp').status = 200
                        /\ Matching(store', id) = {}
                        /\ Len(store') = Len(store) - 1
                        /\ SelectSeq(store', LAMBDA d : d.id # id)
                             = SelectSeq(store, LAMBDA d : d.id # id)
                   ELSE /\ The(resp').status = 404
                        /\ store' = store ]_vars

\* C9's case: a delete_tour ended with 404 on an id an earlier delete_tour
\* removed, the other record still stored.
C9_Witness ==
    /\ IsResponse("delete")
    /\ Returned.status = 404
    /\ deleted[Returned.id] = 1
    /\ Len(store) = 1
    /\ store[1].id # Returned.id

\* C10: no two stored records share an id, and every stored record has
\* created_at <= updated_at.
C10_StoreInvariant ==
    /\ \A i, j \in 1 .. Len(store) : store[i].id = store[j].id => i = j
    /\ \A i \in 1 .. Len(store) : store[i].created_at <= store[i].updated_at

\* C10's case: two records are stored, one of them written by an update_tour
\* that read the clock before a later writer did.
C10_Witness ==
    /\ Len(store) = 2
    /\ store[1].id # store[2].id
    /\ \E i \in 1 .. 2 :
          /\ store[i].id \in modified
          /\ store[i].created_at < store[i].updated_at

====
